---- MODULE Spec2Model ----
(***************************************************************************)
(* A model of the incident store of argus (src/argus/incident): the        *)
(* incident lifecycle (models.py), tag validation and tag reconciliation   *)
(* (serializers.py) and acknowledgement creation (serializers.py).         *)
(*                                                                         *)
(* Spec      the lifecycle: incident creation, set_active, set_inactive    *)
(*           and the clock.                                                *)
(* SpecTags  tag reconciliation, one request after the other.              *)
(* SpecConc  two tag reconciliations of one incident, their database       *)
(*           statements interleaved.                                       *)
(* SpecAck   acknowledgement creation, one insert at a time.               *)
(* SpecUpdate updates of stored Events and Acknowledgements.               *)
(* SpecUnique incident creation under chosen (source_incident_id, source)  *)
(*           pairs, and two interleaved tag reconciliations.               *)
(* SpecField the validation of a submitted tag string.                     *)
(***************************************************************************)
EXTENDS Integers, Sequences, FiniteSets, TLC

\* ------------------------------------------------------------------ bounds
\* Timestamps are 0..MaxTime.
MaxTime == 3
\* Incident primary keys are 1..NumIncidents.
NumIncidents == 2
\* A submitted "tags" list holds at most MaxPosted entries.
MaxPosted == 2
\* Event primary keys are 1..MaxEvents.
MaxEvents == 1
\* A submitted tag string holds at most MaxLen characters.
MaxLen == 4

Times == 0..MaxTime
IncidentIds == 1..NumIncidents

VARIABLES
    now,        \* the clock read by timezone.now()
    end_time,   \* the Incident table: pk -> the row's end_time
    last,       \* the last call and its outcome (history)
    hist,       \* per incident: the lifecycle calls made so far (history)
    sources,    \* the Incident table: pk -> the row's (source_incident_id, source)
    tag_rows,   \* the Tag table: the (key, value) rows
    relations,  \* the IncidentTagRelation table: (tag, incident, added_by) rows
    pc,         \* per concurrent request: where it stands in update()
    req,        \* per concurrent request: its inputs and local variables
    base,       \* the relations when the first concurrent request read them (history)
    events,     \* the Event table
    acks,       \* the Acknowledgement table
    ack_req,    \* the acknowledgement creation under way, between its two inserts
    tag_input,  \* a submitted "tag" string
    tag_result  \* what the tag field made of tag_input

vars == <<now, end_time, last, hist, sources, tag_rows, relations, pc, req, base,
          events, acks, ack_req, tag_input, tag_result>>
lifecycle_vars == <<now, end_time, hist, sources>>
tag_vars == <<tag_rows, relations>>
request_vars == <<pc, req, base>>
ack_vars == <<events, acks, ack_req>>
field_vars == <<tag_input, tag_result>>

\* The Incident rows.
incidents == DOMAIN end_time

Extend(f, k, v) == [x \in (DOMAIN f) \cup {k} |-> IF x = k THEN v ELSE f[x]]

\* ---------------------------------------------------------------- end_time
\* The values of Incident.end_time: None, a datetime, the parsed infinity
\* sentinel, and the unparsed representation "infinity" that set_active and
\* the API assign before save() parses it.
Null == [kind |-> "null"]
Infinity == [kind |-> "infinity"]
INFINITY_REPR == [kind |-> "repr"]
At(t) == [kind |-> "at", t |-> t]

Datetimes == {At(t) : t \in Times}
EndTimes == {Null, Infinity} \cup Datetimes

\* DateTimeInfinityField.to_python: the representation becomes the sentinel,
\* every other value is kept.
to_python(v) == IF v = INFINITY_REPR THEN Infinity ELSE v

\* end_time > timezone.now() on a parsed, non-null end_time: the sentinel is
\* greater than every timestamp.
end_time_gt(e, n) == e = Infinity \/ (e.kind = "at" /\ e.t > n)

\* Incident.save: parses end_time, then stores the row.
save(e) == to_python(e)

\* Incident.stateful
stateful(e) == e # Null

\* Incident.active
active_inclusive(e, n) == stateful(e) /\ (e = Infinity \/ (e.kind = "at" /\ e.t >= n))
active(e, n) == stateful(e) /\ end_time_gt(e, n)

\* Incident.set_active, on a row with end_time e at clock n: whether it raises
\* ValidationError, and the end_time of the row afterwards.
set_active_always(e, n) ==
    IF ~stateful(e) THEN [raised |-> TRUE, end_time |-> e]
    ELSE [raised |-> FALSE, end_time |-> save(INFINITY_REPR)]
set_active(e, n) ==
    IF ~stateful(e) THEN [raised |-> TRUE, end_time |-> e]
    ELSE IF active(e, n) THEN [raised |-> FALSE, end_time |-> e]
    ELSE [raised |-> FALSE, end_time |-> save(INFINITY_REPR)]

\* Incident.set_inactive: n is the clock when self.active is read, n2 the clock
\* when timezone.now() is read for the new end_time; clock is the clock when
\* the call returns.
set_inactive_unguarded(e, n, n2) ==
    IF ~stateful(e) \/ active(e, n)
    THEN [raised |-> FALSE, end_time |-> save(At(n2)), clock |-> n2]
    ELSE [raised |-> FALSE, end_time |-> e, clock |-> n]
set_inactive_inverted(e, n, n2) ==
    IF ~stateful(e) THEN [raised |-> TRUE, end_time |-> e, clock |-> n]
    ELSE IF active(e, n) THEN [raised |-> FALSE, end_time |-> e, clock |-> n]
    ELSE [raised |-> FALSE, end_time |-> save(At(n2)), clock |-> n2]
set_inactive(e, n, n2) ==
    IF ~stateful(e) THEN [raised |-> TRUE, end_time |-> e, clock |-> n]
    ELSE IF ~active(e, n) THEN [raised |-> FALSE, end_time |-> e, clock |-> n]
    ELSE [raised |-> FALSE, end_time |-> save(At(n2)), clock |-> n2]

\* -------------------------------------------------------------------- tags
\* Strings are sequences of characters.
TAG_DELIMITER == "="

\* Tag.join
join(key, value) == key \o <<TAG_DELIMITER>> \o value

\* The validated tag data (key, value) that requests submit.
TagData ==
    { [key |-> <<"a">>, value |-> <<"1">>],
      [key |-> <<"b">>, value |-> <<"2">>],
      [key |-> <<"c">>, value |-> <<"3">>] }

\* Tag.representation, Tag.__str__
representation(tag) == join(tag.key, tag.value)

\* The acting users; user.is_superuser.
Users == {"user1", "user2", "admin"}
is_superuser(user) == user = "admin"

\* The "tags" lists a request can hold.
TagLists == UNION {[1..n -> TagData] : n \in 0..MaxPosted}

Range(f) == {f[x] : x \in DOMAIN f}

\* {Tag.objects.get_or_create(**tag_data)[0] for tag_data in tags_data}: the
\* rows are unique per (key, value), so equal entries are one Tag.
get_or_create_all(tags_data) == Range(tags_data)

\* instance.incident_tag_relations
incident_tag_relations(rels, i) == {r \in rels : r.incident = i}

\* IncidentPureDeserializer.update from its read of the incident's relations
\* `existing` on, with the Tag rows posted_tags of the request: whether it
\* raises ValidationError and with which error keys, the relations it deletes
\* and the tags it attaches.
update_partial(existing, posted_tags, user) ==
    LET existing_tags == {r.tag : r \in existing}
        remove_tag_relations == {r \in existing : r.tag \notin posted_tags}
        add_tags == posted_tags \ existing_tags
        errors == IF is_superuser(user) THEN {}
                  ELSE {representation(r.tag) : r \in {x \in remove_tag_relations : x.added_by # user}}
    IN  IF errors # {}
        THEN [raised |-> TRUE, errors |-> errors,
              deleted |-> {r \in remove_tag_relations : r.added_by = user}, created |-> {}]
        ELSE [raised |-> FALSE, errors |-> {}, deleted |-> remove_tag_relations, created |-> add_tags]
update_additive(existing, posted_tags, user) ==
    LET existing_tags == {r.tag : r \in existing}
        remove_tag_relations == {r \in existing : r.tag \notin posted_tags}
        add_tags == posted_tags \ existing_tags
        errors == IF is_superuser(user) THEN {}
                  ELSE {representation(r.tag) : r \in {x \in remove_tag_relations : x.added_by # user}}
    IN  IF errors # {}
        THEN [raised |-> TRUE, errors |-> errors, deleted |-> {}, created |-> {}]
        ELSE [raised |-> FALSE, errors |-> {}, deleted |-> {}, created |-> add_tags]
update(existing, posted_tags, user) ==
    LET existing_tags == {r.tag : r \in existing}
        remove_tag_relations == {r \in existing : r.tag \notin posted_tags}
        add_tags == posted_tags \ existing_tags
        errors == IF is_superuser(user) THEN {}
                  ELSE {representation(r.tag) : r \in {x \in remove_tag_relations : x.added_by # user}}
    IN  IF errors # {}
        THEN [raised |-> TRUE, errors |-> errors, deleted |-> {}, created |-> {}]
        ELSE [raised |-> FALSE, errors |-> {}, deleted |-> remove_tag_relations, created |-> add_tags]

\* IncidentTagRelation.objects.create(tag=tag, incident=i, added_by=user), for
\* every tag of `tags`.
created_relations(tags, i, user) ==
    {[tag |-> t, incident |-> i, added_by |-> user] : t \in tags}

\* The table after the deletes and creates of an update that ran alone.
apply_update(rels, r, i, user) ==
    (rels \ r.deleted) \cup created_relations(r.created, i, user)

\* ------------------------------------------------------ concurrent requests
\* Two requests run IncidentPureDeserializer.update on the same incident, one
\* database statement at a time; every statement commits on its own.
Requests == {1, 2}
NoRequest == [user |-> "none"]

\* Where update() stands once it has `remove` left to delete and `add` left to
\* create.
next_pc(remove, add) ==
    IF remove # {} THEN "delete" ELSE IF add # {} THEN "create" ELSE "done"

\* Lines 154-172: the tags are fetched or created, the incident's relations
\* are read once, the difference is computed and the removals are authorized.
UpdateRead(q, i, tags_data, user) ==
    LET posted_tags == get_or_create_all(tags_data)
        r == update(incident_tag_relations(relations, i), posted_tags, user)
    IN
    /\ pc[q] = "idle"
    /\ i \in incidents
    /\ tag_rows' = tag_rows \cup posted_tags
    /\ req' = [req EXCEPT ![q] =
                  [user |-> user, incident |-> i, posted |-> posted_tags,
                   remove |-> r.deleted, add |-> r.created,
                   outcome |-> IF r.raised THEN "ValidationError" ELSE "ok"]]
    /\ pc' = [pc EXCEPT ![q] = IF r.raised THEN "done" ELSE next_pc(r.deleted, r.created)]
    /\ base' = IF \A o \in Requests : pc[o] = "idle" THEN relations ELSE base
    /\ UNCHANGED <<lifecycle_vars, last, relations, ack_vars, field_vars>>

\* Lines 174-175: tag_relation.delete() of one relation read earlier; deleting
\* a row that is gone deletes nothing.
UpdateDelete(q) ==
    /\ pc[q] = "delete"
    /\ \E r \in req[q].remove :
          /\ relations' = relations \ {r}
          /\ req' = [req EXCEPT ![q].remove = @ \ {r}]
          /\ pc' = [pc EXCEPT ![q] = next_pc(req[q].remove \ {r}, req[q].add)]
    /\ UNCHANGED <<lifecycle_vars, last, tag_rows, base, ack_vars, field_vars>>

\* Lines 178-179: IncidentTagRelation.objects.create of one tag; the unique
\* constraint on (tag, incident) (models.py:118) rejects a second relation
\* of the tag, and the exception ends the request.
UpdateCreate(q) ==
    /\ pc[q] = "create"
    /\ \E t \in req[q].add :
          IF \E r \in relations : r.tag = t /\ r.incident = req[q].incident
          THEN /\ req' = [req EXCEPT ![q].outcome = "IntegrityError"]
               /\ pc' = [pc EXCEPT ![q] = "done"]
               /\ UNCHANGED relations
          ELSE /\ relations' = relations \cup
                     created_relations({t}, req[q].incident, req[q].user)
               /\ req' = [req EXCEPT ![q].add = @ \ {t}]
               /\ pc' = [pc EXCEPT ![q] = next_pc({}, req[q].add \ {t})]
    /\ UNCHANGED <<lifecycle_vars, last, tag_rows, base, ack_vars, field_vars>>

\* ------------------------------------------------------ tag string validation
\* The characters of submitted strings: whitespace, a lowercase letter, an
\* uppercase letter, the underscore and the delimiter.
Alphabet == {" ", "a", "N", "_", TAG_DELIMITER}
TagStrings == UNION {[1..n -> Alphabet] : n \in 0..MaxLen}
Pending == [state |-> "pending"]

\* str.isspace, and the characters of [a-z0-9_]
IsSpace(c) == c = " "
IsKeyChar(c) == c \in {"a", "_"}

\* str.strip
RECURSIVE lstrip(_)
lstrip(s) == IF s # <<>> /\ IsSpace(Head(s)) THEN lstrip(Tail(s)) ELSE s
RECURSIVE rstrip(_)
rstrip(s) == IF s # <<>> /\ IsSpace(s[Len(s)]) THEN rstrip(SubSeq(s, 1, Len(s) - 1)) ELSE s
strip(s) == rstrip(lstrip(s))

\* Tag.split: tag.split("=", maxsplit=1)
split(tag) ==
    IF \E k \in 1..Len(tag) : tag[k] = TAG_DELIMITER
    THEN LET k == CHOOSE k \in 1..Len(tag) :
                      /\ tag[k] = TAG_DELIMITER
                      /\ \A j \in 1..(k - 1) : tag[j] # TAG_DELIMITER
         IN <<SubSeq(tag, 1, k - 1), SubSeq(tag, k + 1, Len(tag))>>
    ELSE <<tag>>

\* Tag.key's RegexValidator, ^[a-z0-9_]+\Z: TRUE when the key matches.
key_matches(key) == key # <<>> /\ \A k \in 1..Len(key) : IsKeyChar(key[k])

\* IncidentTagRelationSerializer.validate_tag: the error it raises, or the
\* reassembled tag.
validate_tag(value) ==
    LET split_tag == split(value) IN
    IF Len(split_tag) < 2 THEN [error |-> "no delimiter"]
    ELSE LET key == strip(split_tag[1]) IN
         IF key = <<>> THEN [error |-> "empty key"]
         ELSE IF ~key_matches(key) THEN [error |-> "invalid key"]
         ELSE [error |-> "none", tag |-> join(key, split_tag[2])]

\* tag = serializers.CharField(write_only=True): a blank string is refused and
\* surrounding whitespace is trimmed (allow_blank=False and
\* trim_whitespace=True are the field's defaults).
CharField(data) ==
    IF strip(data) = <<>> THEN [error |-> "blank"]
    ELSE [error |-> "none", value |-> strip(data)]

\* IncidentTagRelationSerializer.to_internal_value: the field, validate_tag,
\* then the split into the key and value that are stored.
tag_to_internal_value(data) ==
    LET field == CharField(data) IN
    IF field.error # "none" THEN [error |-> field.error]
    ELSE LET v == validate_tag(field.value) IN
         IF v.error # "none" THEN [error |-> v.error]
         ELSE [error |-> "none", key |-> split(v.tag)[1], value |-> split(v.tag)[2]]

\* One submitted tag string is validated.
SubmitTag ==
    /\ tag_result = Pending
    /\ tag_result' = tag_to_internal_value(tag_input)
    /\ UNCHANGED <<lifecycle_vars, last, tag_vars, request_vars, ack_vars, tag_input>>

\* ---------------------------------------------------------- acknowledgements
\* Event.Type: the type of acknowledgement events, and other types.
ACKNOWLEDGE == "ACK"
EventTypes == {ACKNOWLEDGE, "OTH", "CLO"}
\* The "type" of a submitted event: a type, or no "type" key.
NoType == "absent"
NoAck == [event |-> 0]

\* AcknowledgementSerializer.to_internal_value: a missing type is ACKNOWLEDGE.
to_internal_value(type_in) == IF type_in = NoType THEN ACKNOWLEDGE ELSE type_in

\* AcknowledgementSerializer.validate_event: TRUE when it raises.
validate_event(type) == type # ACKNOWLEDGE

\* AcknowledgementSerializer.validate: TRUE when it raises; expiration is Null
\* or a timestamp.
validate_strictly_before(expiration, timestamp) ==
    expiration # Null /\ expiration.t < timestamp
validate(expiration, timestamp) ==
    expiration # Null /\ expiration.t <= timestamp

\* serializer.is_valid(): the three steps above, in the framework's order.
is_valid(type_in, timestamp, expiration) ==
    /\ ~validate_event(to_internal_value(type_in))
    /\ ~validate(expiration, timestamp)

\* AcknowledgementSerializer.create, line 275: after validation, the Event row
\* is inserted; a submission that fails validation writes nothing.
AckCreateEvent(i, actor, type_in, timestamp, expiration) ==
    LET ok == is_valid(type_in, timestamp, expiration)
        pk == Cardinality(events) + 1
    IN
    /\ ack_req = NoAck
    /\ i \in incidents
    /\ ok => pk <= MaxEvents
    /\ events' = IF ok
                  THEN events \cup {[pk |-> pk, incident |-> i, actor |-> actor,
                                      timestamp |-> timestamp,
                                      type |-> to_internal_value(type_in)]}
                  ELSE events
    /\ ack_req' = IF ok THEN [event |-> pk, expiration |-> expiration] ELSE NoAck
    /\ last' = [op |-> "ack", raised |-> ~ok, type_in |-> type_in,
                timestamp |-> timestamp, expiration |-> expiration,
                events |-> events, acks |-> acks]
    /\ UNCHANGED <<lifecycle_vars, tag_vars, request_vars, acks, field_vars>>

\* AcknowledgementSerializer.create, line 276: the Acknowledgement row of the
\* event just inserted.
AckCreateAcknowledgement ==
    /\ ack_req # NoAck
    /\ acks' = acks \cup {[event |-> ack_req.event, expiration |-> ack_req.expiration]}
    /\ ack_req' = NoAck
    /\ UNCHANGED <<lifecycle_vars, tag_vars, request_vars, events, last, field_vars>>

\* The second insert fails (the database refuses or is lost, the worker dies):
\* create() runs in no transaction, so the Event row inserted at line 275
\* stays.
AckCreateFails ==
    /\ ack_req # NoAck
    /\ ack_req' = NoAck
    /\ UNCHANGED <<lifecycle_vars, tag_vars, request_vars, events, acks, last, field_vars>>

\* ------------------------------------------------------------ immutability
\* A key that validated_data does not hold.
Absent == [kind |-> "absent"]
\* The "event" of validated_data: the nested dict, or no such key.
EventData == {[kind |-> "event", type |-> ty, timestamp |-> t] :
                 ty \in EventTypes, t \in Times} \cup {Absent}
\* validated_data of an acknowledgement: "event" and "expiration", each
\* present or not.
AckData == [event : EventData, expiration : {Absent, Null} \cup Datetimes]

\* EventSerializer.update(*args, **kwargs): raises, whatever it is given.
event_update(event, validated_data) ==
    [raised |-> TRUE, error |-> "NotImplementedError", event |-> event]

\* AcknowledgementSerializer declares no update, so the one it inherits from
\* ModelSerializer runs: it refuses validated_data holding the nested "event"
\* dict (an assertion), and otherwise sets every attribute validated_data
\* holds on the instance and saves it.
ack_update(ack, validated_data) ==
    IF validated_data.event # Absent
    THEN [raised |-> TRUE, error |-> "AssertionError", ack |-> ack]
    ELSE [raised |-> FALSE, error |-> "none",
          ack |-> IF validated_data.expiration = Absent THEN ack
                  ELSE [ack EXCEPT !.expiration = validated_data.expiration]]

\* serializer.update(instance, validated_data) on a stored Event.
EventUpdate(pk, validated_data) ==
    /\ ack_req = NoAck
    /\ \E e \in events :
          /\ e.pk = pk
          /\ LET r == event_update(e, validated_data) IN
             /\ events' = (events \ {e}) \cup {r.event}
             /\ last' = [op |-> "event_update", raised |-> r.raised,
                         error |-> r.error, events |-> events, acks |-> acks]
    /\ UNCHANGED <<lifecycle_vars, tag_vars, request_vars, acks, ack_req, field_vars>>

\* serializer.update(instance, validated_data) on a stored Acknowledgement.
AckUpdate(pk, validated_data) ==
    /\ ack_req = NoAck
    /\ \E a \in acks :
          /\ a.event = pk
          /\ LET r == ack_update(a, validated_data) IN
             /\ acks' = (acks \ {a}) \cup {r.ack}
             /\ last' = [op |-> "ack_update", raised |-> r.raised,
                         error |-> r.error, events |-> events, acks |-> acks]
    /\ UNCHANGED <<lifecycle_vars, tag_vars, request_vars, events, ack_req, field_vars>>

\* ------------------------------------------------------------------ actions
\* The sources that report incidents, and the ids they give them.
SourceSystems == {"source1", "source2"}
SourceIncidentIds == 1..NumIncidents
\* A source_incident_id no stored incident carries.
fresh_id == Cardinality(incidents) + 1

\* IncidentSerializer.create: the tags are fetched or created, the incident
\* gets the next primary key and end_time as submitted (None, "infinity" or a
\* timestamp), stored by save(), and every tag is attached, added by the user.
\* The unique constraint on (source_incident_id, source) (models.py:181-185)
\* rejects the insert of a second incident of the pair: the exception leaves
\* create() at line 111, after the tags were fetched or created.
CreateIncident(e, tags_data, user, source_incident_id, source) ==
    LET i == Cardinality(incidents) + 1
        tags == get_or_create_all(tags_data)
        key == [source_incident_id |-> source_incident_id, source |-> source]
        duplicate == \E j \in incidents : sources[j] = key
    IN
    /\ i \in IncidentIds
    /\ tag_rows' = tag_rows \cup tags
    /\ IF duplicate
       THEN UNCHANGED <<end_time, sources, relations, hist>>
       ELSE /\ end_time' = Extend(end_time, i, save(e))
            /\ sources' = Extend(sources, i, key)
            /\ relations' = relations \cup created_relations(tags, i, user)
            /\ hist' = Extend(hist, i, "none")
    /\ last' = [op |-> "create", id |-> i, raised |-> duplicate,
                error |-> IF duplicate THEN "IntegrityError" ELSE "none",
                tag_rows |-> tag_rows]
    /\ UNCHANGED <<now, request_vars, ack_vars, field_vars>>

\* IncidentPureDeserializer.update(instance, validated_data), with the user's
\* full set of tags.
UpdateIncident(i, tags_data, user) ==
    LET existing == incident_tag_relations(relations, i)
        r == update(existing, get_or_create_all(tags_data), user)
    IN
    /\ i \in incidents
    /\ tag_rows' = tag_rows \cup get_or_create_all(tags_data)
    /\ relations' = apply_update(relations, r, i, user)
    /\ last' = [op |-> "update", id |-> i, user |-> user,
                posted |-> Range(tags_data), submitted |-> Len(tags_data),
                before |-> existing, raised |-> r.raised, errors |-> r.errors]
    /\ UNCHANGED <<lifecycle_vars, request_vars, ack_vars, field_vars>>

SetActive(i) ==
    LET r == set_active(end_time[i], now) IN
    /\ i \in incidents
    /\ end_time' = [end_time EXCEPT ![i] = r.end_time]
    /\ last' = [op |-> "set_active", id |-> i, raised |-> r.raised,
                before |-> end_time[i], t0 |-> now, t1 |-> now]
    /\ hist' = [hist EXCEPT ![i] = IF r.raised THEN @ ELSE "A"]
    /\ UNCHANGED <<now, sources, tag_vars, request_vars, ack_vars, field_vars>>

SetInactive(i, n2) ==
    LET r == set_inactive(end_time[i], now, n2) IN
    /\ i \in incidents
    /\ n2 \in Times /\ n2 >= now /\ n2 <= now + 1
    /\ end_time' = [end_time EXCEPT ![i] = r.end_time]
    /\ now' = r.clock
    /\ last' = [op |-> "set_inactive", id |-> i, raised |-> r.raised,
                before |-> end_time[i], t0 |-> now, t1 |-> r.clock]
    /\ hist' = [hist EXCEPT ![i] =
                   IF r.raised THEN @ ELSE IF @ \in {"A", "AI"} THEN "AI" ELSE @]
    /\ UNCHANGED <<sources, tag_vars, request_vars, ack_vars, field_vars>>

\* Time passes.
Tick ==
    /\ now < MaxTime
    /\ now' = now + 1
    /\ UNCHANGED <<end_time, last, hist, sources, tag_vars, request_vars, ack_vars, field_vars>>

InitStore ==
    /\ now = 0
    /\ end_time = <<>>
    /\ last = [op |-> "none"]
    /\ hist = <<>>
    /\ sources = <<>>
    /\ tag_rows = {}
    /\ relations = {}
    /\ pc = [q \in Requests |-> "idle"]
    /\ req = [q \in Requests |-> NoRequest]
    /\ base = {}
    /\ events = {}
    /\ acks = {}
    /\ ack_req = NoAck

Init ==
    /\ InitStore
    /\ tag_input = <<>>
    /\ tag_result = Pending

Next ==
    \/ \E e \in {Null, INFINITY_REPR} \cup Datetimes : CreateIncident(e, <<>>, "user1", fresh_id, "source1")
    \/ \E i \in IncidentIds : SetActive(i)
    \/ \E i \in IncidentIds, n2 \in Times : SetInactive(i, n2)
    \/ Tick

Spec == Init /\ [][Next]_vars

\* Tagging: an incident is created with tags, and its tags are reconciled by
\* one request after the other.
NextTags ==
    \/ /\ incidents = {}
       /\ \E td \in TagLists, u \in Users : CreateIncident(Null, td, u, fresh_id, "source1")
    \/ \E i \in IncidentIds, td \in TagLists, u \in Users : UpdateIncident(i, td, u)

SpecTags == Init /\ [][NextTags]_vars

\* Concurrency: an incident is created with tags, then two requests reconcile
\* its tags, their statements interleaved.
NextConc ==
    \/ /\ incidents = {}
       /\ \E td \in TagLists, u \in Users : CreateIncident(Null, td, u, fresh_id, "source1")
    \/ \E q \in Requests, i \in IncidentIds, td \in TagLists, u \in Users :
          UpdateRead(q, i, td, u)
    \/ \E q \in Requests : UpdateDelete(q)
    \/ \E q \in Requests : UpdateCreate(q)

SpecConc == Init /\ [][NextConc]_vars

\* Acknowledgements: an incident is created, then acknowledgements are
\* submitted, one insert at a time.
NextAck ==
    \/ /\ incidents = {}
       /\ CreateIncident(Null, <<>>, "user1", fresh_id, "source1")
    \/ \E i \in IncidentIds, ty \in EventTypes \cup {NoType},
          t \in Times, x \in {Null} \cup Datetimes :
          AckCreateEvent(i, "user1", ty, t, x)
    \/ AckCreateAcknowledgement
    \/ AckCreateFails

SpecAck == Init /\ [][NextAck]_vars

\* Immutability: acknowledgements are created, then stored Events and
\* Acknowledgements are updated.
NextUpdate ==
    \/ NextAck
    \/ \E pk \in 1..MaxEvents, d \in EventData \ {Absent} : EventUpdate(pk, d)
    \/ \E pk \in 1..MaxEvents, d \in AckData : AckUpdate(pk, d)

SpecUpdate == Init /\ [][NextUpdate]_vars

\* Uniqueness: incidents are created by sources under ids of their choice,
\* and two requests reconcile the tags of an incident, their statements
\* interleaved.
ShortTagLists == {td \in TagLists : Len(td) < MaxPosted}
NextUnique ==
    \/ \E td \in ShortTagLists, sid \in SourceIncidentIds, src \in SourceSystems :
          CreateIncident(Null, td, "user1", sid, src)
    \/ \E q \in Requests, i \in IncidentIds, td \in ShortTagLists :
          UpdateRead(q, i, td, "user1")
    \/ \E q \in Requests : UpdateDelete(q)
    \/ \E q \in Requests : UpdateCreate(q)

SpecUnique == Init /\ [][NextUnique]_vars

\* Tag strings: any string of at most MaxLen characters is submitted.
InitField ==
    /\ InitStore
    /\ tag_input \in TagStrings
    /\ tag_result = Pending

NextField == SubmitTag

SpecField == InitField /\ [][NextField]_vars

\* ------------------------------------------------------------ the lifecycle
\* end_time e is in the future of clock n, said without Incident.active.
InFuture(e, n) == e.kind = "infinity" \/ (e.kind = "at" /\ e.t > n)

LifecycleOps == {"set_active", "set_inactive"}

\* C3: set_active and set_inactive on a stateless incident (end_time null)
\* raise the validation error and leave end_time null, and no step takes an
\* existing incident from stateless to stateful or from stateful to stateless.
C3_StatelessIsTerminal ==
    [][ /\ \A i \in incidents : (end_time'[i] = Null) <=> (end_time[i] = Null)
        /\ (last'.op \in LifecycleOps /\ last'.before = Null)
              => (last'.raised /\ end_time'[last'.id] = Null) ]_vars

C3_Witness ==
    /\ last.op \in LifecycleOps
    /\ last.before = Null
    /\ last.raised
    /\ \E j \in incidents : end_time[j] # Null

\* C4: every incident's end_time is null, the infinity sentinel or a
\* timestamp; stateful is exactly end_time not null; active implies stateful;
\* active is exactly end_time being the sentinel or a timestamp strictly after
\* the clock.
C4_DerivedState ==
    \A i \in incidents :
        LET e == end_time[i] IN
        /\ e \in EndTimes
        /\ stateful(e) <=> (e.kind # "null")
        /\ active(e, now) => stateful(e)
        /\ active(e, now) <=> InFuture(e, now)

C4_Witness ==
    \E i, j \in incidents :
        /\ end_time[i] = Infinity /\ active(end_time[i], now)
        /\ end_time[j].kind = "at" /\ end_time[j].t = now /\ ~active(end_time[j], now)
        /\ now > 0

\* C5: an incident on which set_active and then set_inactive succeeded, with
\* no set_active since, is stateful and not active, with end_time a timestamp
\* at or before the clock, at every later time.
C5_ActiveThenInactive ==
    \A i \in incidents :
        hist[i] = "AI" =>
            /\ end_time[i] # Null
            /\ ~InFuture(end_time[i], now)
            /\ end_time[i].kind = "at"
            /\ end_time[i].t <= now

C5_Witness ==
    \E i \in incidents :
        /\ hist[i] = "AI"
        /\ end_time[i].kind = "at"
        /\ end_time[i].t < now

\* C6: set_active on an active incident and set_inactive on an inactive
\* stateful incident raise nothing and leave end_time as it was; otherwise, on
\* a stateful incident, set_active stores the infinity sentinel and
\* set_inactive stores the clock's time.
C6_NoOpOrWrite ==
    (last.op \in LifecycleOps /\ last.before # Null) =>
        /\ ~last.raised
        /\ (last.op = "set_active" /\ InFuture(last.before, last.t0))
              => end_time[last.id] = last.before
        /\ (last.op = "set_inactive" /\ ~InFuture(last.before, last.t0))
              => end_time[last.id] = last.before
        /\ (last.op = "set_active" /\ ~InFuture(last.before, last.t0))
              => end_time[last.id] = Infinity
        /\ (last.op = "set_inactive" /\ InFuture(last.before, last.t0))
              => (end_time[last.id] = At(last.t1) /\ last.t0 <= last.t1 /\ last.t1 <= now)

C6_Witness ==
    /\ last.op = "set_active"
    /\ last.before.kind = "at"
    /\ last.before.t > last.t0
    /\ end_time[last.id] = last.before

\* ------------------------------------------------------ tag reconciliation
TagsOf(rels) == {r.tag : r \in rels}

\* The relations of `before` that a request by `user` with the tags `posted`
\* would remove although another user added them.
Offending(before, posted, user) ==
    {r \in before : r.tag \notin posted /\ r.added_by # user}

\* C1: an update by a user who is no superuser, with at least one relation to
\* remove that another user added, raises the validation error, its errors
\* name exactly the offending tags, one each, and the incident's relations are
\* those it had before.
C1_AllOrNothing ==
    last.op = "update" =>
        LET offending == Offending(last.before, last.posted, last.user) IN
        (~is_superuser(last.user) /\ offending # {}) =>
            /\ last.raised
            /\ last.errors = {r.tag.key \o <<"=">> \o r.tag.value : r \in offending}
            /\ Cardinality(last.errors) = Cardinality(offending)
            /\ incident_tag_relations(relations, last.id) = last.before

C1_Witness ==
    /\ last.op = "update"
    /\ last.raised
    /\ \E r \in last.before : r.added_by = last.user /\ r.tag \notin last.posted
    /\ \E r \in last.before : r.added_by # last.user /\ r.tag \notin last.posted
    /\ last.posted \ TagsOf(last.before) # {}
    /\ incident_tag_relations(relations, last.id) = last.before

\* C2: an update by a superuser, or one whose removals were all added by the
\* acting user, raises nothing and leaves the incident with exactly the
\* submitted tags, one relation each: the relations of submitted tags are kept
\* with their added_by, the others are deleted, and every tag not attached
\* before is attached with added_by the acting user.
C2_ExactlySubmitted ==
    last.op = "update" =>
        LET after == incident_tag_relations(relations, last.id) IN
        (is_superuser(last.user) \/ Offending(last.before, last.posted, last.user) = {}) =>
            /\ ~last.raised
            /\ TagsOf(after) = last.posted
            /\ Cardinality(after) = Cardinality(last.posted)
            /\ {r \in after : r.tag \in TagsOf(last.before)}
                  = {r \in last.before : r.tag \in last.posted}
            /\ \A r \in after : r.tag \notin TagsOf(last.before) => r.added_by = last.user

C2_Witness ==
    /\ last.op = "update"
    /\ ~last.raised
    /\ is_superuser(last.user)
    /\ \E r \in last.before : r.tag \notin last.posted /\ r.added_by # last.user
    /\ \E r \in last.before :
          r.tag \in last.posted /\ r.added_by # last.user /\ r \in relations
    /\ last.posted \ TagsOf(last.before) # {}
    /\ TagsOf(incident_tag_relations(relations, last.id)) = last.posted

\* ------------------------------------------------------ concurrent requests
\* The relations after request q ran alone on the relations rels.
RanAlone(rels, q) ==
    apply_update(rels,
                 update(incident_tag_relations(rels, req[q].incident), req[q].posted, req[q].user),
                 req[q].incident, req[q].user)

\* C7: when two concurrent reconciliations of one incident have ended, the
\* relations are those of running the two requests one after the other, in
\* one of the two orders.
C7_Serializable ==
    (\A q \in Requests : pc[q] = "done") =>
        relations \in {RanAlone(RanAlone(base, 1), 2), RanAlone(RanAlone(base, 2), 1)}

\* ---------------------------------------------------------- acknowledgements
\* C8: whenever no acknowledgement creation is under way, also after one that
\* failed, every Acknowledgement refers to an Event of type ACKNOWLEDGE and
\* every Event an acknowledgement creation inserted has its Acknowledgement.
C8_AtomicCreation ==
    ack_req = NoAck =>
        /\ \A a \in acks : \E e \in events : e.pk = a.event /\ e.type = ACKNOWLEDGE
        /\ \A e \in events : \E a \in acks : a.event = e.pk

\* C9: a submission is accepted exactly when its type is ACKNOWLEDGE or
\* missing and its expiration is missing or strictly after the event's
\* timestamp; a rejected submission leaves the Event and Acknowledgement
\* tables as they were.
C9_Accepted ==
    last.op = "ack" =>
        /\ ~last.raised <=>
              /\ last.type_in \in {"ACK", "absent"}
              /\ (last.expiration.kind = "null" \/ last.expiration.t > last.timestamp)
        /\ last.raised => (events = last.events /\ acks = last.acks /\ ack_req = NoAck)

C9_Witness ==
    /\ last.op = "ack"
    /\ last.raised
    /\ last.type_in = "absent"
    /\ last.expiration.kind = "at"
    /\ last.expiration.t = last.timestamp
    /\ events # {}

\* ------------------------------------------------------ tag string validation
\* The part of s before its first delimiter, and the part after it.
BeforeDelimiter(s) ==
    SubSeq(s, 1, (CHOOSE k \in 1..Len(s) :
                     s[k] = "=" /\ \A j \in 1..(k - 1) : s[j] # "=") - 1)
AfterDelimiter(s) == SubSeq(s, Len(BeforeDelimiter(s)) + 2, Len(s))
HasDelimiter(s) == \E k \in 1..Len(s) : s[k] = "="

\* C10: a tag string is rejected if it has no delimiter, if its key is empty
\* once trimmed, or if its trimmed key has a character outside [a-z0-9_];
\* otherwise it is stored with the trimmed key and, as value, everything after
\* the first delimiter, unchanged.
C10_TagValidation ==
    tag_result # Pending =>
        LET rejected == \/ ~HasDelimiter(tag_input)
                        \/ strip(BeforeDelimiter(tag_input)) = <<>>
                        \/ \E c \in Range(strip(BeforeDelimiter(tag_input))) : c \notin {"a", "_"}
        IN  /\ (tag_result.error # "none") <=> rejected
            /\ ~rejected =>
                  /\ tag_result.key = strip(BeforeDelimiter(tag_input))
                  /\ tag_result.value = AfterDelimiter(tag_input)

\* ------------------------------------------------------------ immutability
\* C11: Events and Acknowledgements are immutable once created: every update
\* of a stored Event or Acknowledgement fails with a not-supported error,
\* whatever validated_data holds, and leaves both tables as they were.  The
\* framework's refusal of nested data is counted as such an error here.
NotSupported == {"NotImplementedError", "AssertionError"}
C11_Immutable ==
    last.op \in {"event_update", "ack_update"} =>
        /\ last.raised
        /\ last.error \in NotSupported
        /\ events = last.events
        /\ acks = last.acks

\* -------------------------------------------------------------- uniqueness
\* At most one relation per (tag, incident), at most one incident per
\* (source_incident_id, source).
UniqueRelations ==
    \A r1, r2 \in relations :
        (r1.tag = r2.tag /\ r1.incident = r2.incident) => r1 = r2
UniqueIncidents ==
    \A i, j \in incidents : sources[i] = sources[j] => i = j

\* C12: a uniqueness violation surfaces as a validation error: a creation
\* under a (source_incident_id, source) pair that is stored ends in a
\* validation error and leaves the store as it was, a reconciliation that
\* attaches a tag the incident already carries ends in a validation error,
\* and in every state relations and incidents are unique under their keys.
C12_UniquenessReported ==
    /\ (last.op = "create" /\ last.raised) =>
          /\ last.error = "ValidationError"
          /\ tag_rows = last.tag_rows
    /\ \A q \in Requests :
          (pc[q] = "done" /\ req[q].outcome # "ok") =>
              req[q].outcome = "ValidationError"
    /\ UniqueRelations
    /\ UniqueIncidents

====
